---- MODULE Spec2Model ----
(***************************************************************************)
(* Energy Off-Peak Tracker (custom_components/energy_offpeak).             *)
(*                                                                         *)
(* Numbers: an energy reading is an integer count of 0.0001 kWh, so that   *)
(* the rounding to 3 decimals done on every published value is visible.    *)
(* Optional values (Python None) are sets: {} is None, {x} is the value x. *)
(* Time strings are sequences of character codes: the digits are 0..9 and  *)
(* the colon is 10 (it sorts after every digit, as ':' does in Python).    *)
(* A calendar date (and its isoformat string) is the number of the day.    *)
(***************************************************************************)
EXTENDS Integers, Sequences, FiniteSets, TLC

VARIABLES
    entries,          \* config entries created by the config flow
    flow_result,      \* result of the last config/options flow step
    conf,             \* the sensor's _peak_start_h/_m, _peak_end_h/_m
    running,          \* the entity is added to hass (listeners registered)
    now,              \* dt_util.now(): [day, hour, minute]
    due,              \* time triggers that reached their second and are not yet run
    source,           \* hass.states.get(source_entity)
    snapshot_start,   \* _snapshot_start
    snapshot_end,     \* _snapshot_end
    snapshot_date,    \* _snapshot_date
    native_value,     \* _attr_native_value
    attrs,            \* _attr_extra_state_attributes
    unsaved,          \* the record of the newest save task, until the store wrote it
    store,            \* what Store.async_load would return
    last_sensor_data, \* what async_get_last_sensor_data would restore
    captured          \* history: today's peak-start trigger captured a reading

vars == <<entries, flow_result, conf, running, now, due, source, snapshot_start,
          snapshot_end, snapshot_date, native_value, attrs, unsaved, store,
          last_sensor_data, captured>>

flowVars == <<entries, flow_result>>

trackerVars == <<conf, running, now, due, source, snapshot_start, snapshot_end,
                 snapshot_date, native_value, attrs, unsaved, store,
                 last_sensor_data, captured>>

(***************************************************************************)
(* Bounds of the model.                                                    *)
(***************************************************************************)
MaxHour == 1
MaxDay == 1
MaxEntries == 2

HourGrid == 0..MaxHour
MinuteGrid == {0, 30}
\* the times of day of the model: 00:00, 00:30, ..., MaxHour:00
TimeGrid == {hm \in HourGrid \X MinuteGrid : hm[1] * 60 + hm[2] <= MaxHour * 60}
Days == 0..MaxDay

(***************************************************************************)
(* Optional values.                                                        *)
(***************************************************************************)
None == {}
Some(x) == {x}
Get(o) == CHOOSE x \in o : TRUE

Max(a, b) == IF a >= b THEN a ELSE b

Kwh(n) == n * 10000

\* Python round(value, 3): nearest multiple of 0.001, ties to the even one.
Round3(x) ==
    LET q == x \div 10
        r == x % 10
    IN  IF r < 5 THEN 10 * q
        ELSE IF r > 5 THEN 10 * (q + 1)
        ELSE IF q % 2 = 0 THEN 10 * q ELSE 10 * (q + 1)

(***************************************************************************)
(* Time strings.                                                           *)
(***************************************************************************)
Colon == 10

TwoDigits(n) == <<n \div 10, n % 10>>

HHMM(h, m) == TwoDigits(h) \o <<Colon>> \o TwoDigits(m)

HHMMSS(h, m, s) == HHMM(h, m) \o <<Colon>> \o TwoDigits(s)

\* Python's str < str: lexicographic on the code points.
RECURSIVE StrLess(_, _)
StrLess(a, b) ==
    IF b = <<>> THEN FALSE
    ELSE IF a = <<>> THEN TRUE
    ELSE IF Head(a) # Head(b) THEN Head(a) < Head(b)
    ELSE StrLess(Tail(a), Tail(b))

\* str.split(":")
RECURSIVE SplitColon(_)
SplitColon(str) ==
    IF \A i \in 1..Len(str) : str[i] # Colon THEN <<str>>
    ELSE LET k == CHOOSE i \in 1..Len(str) :
                      str[i] = Colon /\ \A j \in 1..(i - 1) : str[j] # Colon
         IN  <<SubSeq(str, 1, k - 1)>> \o SplitColon(SubSeq(str, k + 1, Len(str)))

\* int() of a string of decimal digits
RECURSIVE IntOf(_)
IntOf(str) ==
    IF str = <<>> THEN 0
    ELSE 10 * IntOf(SubSeq(str, 1, Len(str) - 1)) + str[Len(str)]

ParseHHMM(time_str) ==
    LET parts == SplitColon(time_str)
    IN  <<IntOf(parts[1]), IntOf(parts[2])>>

(***************************************************************************)
(* Configuration flow (config_flow.py).                                    *)
(***************************************************************************)
SourceEntities == {"sensor.today_energy_import", "sensor.grid_import"}

\* What the time selector hands over: "HH:MM:SS" when the field was edited,
\* the "HH:MM" default when it was left alone.
TimeInputs ==
    {HHMM(hm[1], hm[2]) : hm \in TimeGrid}
        \cup {HHMMSS(hm[1], hm[2], 0) : hm \in TimeGrid}

UserInputs ==
    [name : {"Energy Import Off-Peak"}, source_entity : SourceEntities,
     peak_start : TimeInputs, peak_end : TimeInputs]

\* The forms submitted in the flow's own specification: a default left alone,
\* the same time picked in the selector, and a later time.
FlowTimeInputs == {HHMM(0, 0), HHMMSS(0, 0, 0), HHMM(0, 30)}

FlowInputs ==
    {u \in UserInputs :
        u.peak_start \in FlowTimeInputs /\ u.peak_end \in FlowTimeInputs}

NoResult == [type |-> "none", error |-> ""]

\* peak_start >= peak_end, on the strings
PeakStartAfterEnd(user_input) ==
    ~StrLess(user_input.peak_start, user_input.peak_end)

UniqueId(user_input) ==
    <<user_input.source_entity, user_input.peak_start, user_input.peak_end>>

UniqueIdConfigured(uid) == \E i \in 1..Len(entries) : entries[i].unique_id = uid

\* EnergyOffPeakConfigFlow.async_step_user; input is None (the form is opened)
\* or the submitted form
AsyncStepUser(input) ==
    /\ IF input = None
       THEN /\ flow_result' = [type |-> "form", error |-> ""]
            /\ UNCHANGED entries
       ELSE IF PeakStartAfterEnd(Get(input))
       THEN /\ flow_result' = [type |-> "form", error |-> "peak_start_after_end"]
            /\ UNCHANGED entries
       ELSE IF UniqueIdConfigured(UniqueId(Get(input)))
       THEN /\ flow_result' = [type |-> "abort", error |-> "already_configured"]
            /\ UNCHANGED entries
       ELSE /\ Len(entries) < MaxEntries
            /\ flow_result' = [type |-> "create_entry", error |-> ""]
            /\ entries' = Append(entries,
                   [unique_id |-> UniqueId(Get(input)), data |-> Get(input),
                    options |-> None])
    /\ UNCHANGED trackerVars

\* EnergyOffPeakOptionsFlow.async_step_init for entry i; input as above
AsyncStepInit(i, input) ==
    /\ i \in 1..Len(entries)
    /\ IF input = None
       THEN /\ flow_result' = [type |-> "form", error |-> ""]
            /\ UNCHANGED entries
       ELSE IF PeakStartAfterEnd(Get(input))
       THEN /\ flow_result' = [type |-> "form", error |-> "peak_start_after_end"]
            /\ UNCHANGED entries
       ELSE /\ flow_result' = [type |-> "create_entry", error |-> ""]
            /\ entries' = [entries EXCEPT ![i].options = input]
    /\ UNCHANGED trackerVars

\* async_setup_entry: config = {**entry.data, **entry.options}
EntryConfig(entry) ==
    IF entry.options # None THEN Get(entry.options) ELSE entry.data

\* EnergyOffPeakSensor.__init__: the parsed window bounds
SensorConf(config) ==
    LET ps == ParseHHMM(config.peak_start)
        pe == ParseHHMM(config.peak_end)
    IN  [peak_start_h |-> ps[1], peak_start_m |-> ps[2],
         peak_end_h |-> pe[1], peak_end_m |-> pe[2]]

\* The configurations a sensor can be set up with: those the flow accepts.
AcceptedConfs == {SensorConf(u) : u \in {x \in UserInputs : ~PeakStartAfterEnd(x)}}

(***************************************************************************)
(* The sensor (sensor.py).                                                 *)
(***************************************************************************)
Readings == {-7, 14, 40}

\* hass.states.get(source): no state object, or a state with its string
SourceStates ==
    {[kind |-> k, val |-> 0] : k \in {"absent", "unknown", "unavailable", "text"}}
        \cup {[kind |-> "numeric", val |-> v] : v \in Readings}

\* EnergyOffPeakSensor._get_source_value
GetSourceValue(state) ==
    IF state.kind = "absent" \/ state.kind \in {"unknown", "unavailable"}
    THEN None
    ELSE IF state.kind = "numeric" THEN Some(state.val)
    ELSE None

PeakStartMinutes(c) == c.peak_start_h * 60 + c.peak_start_m

PeakEndMinutes(c) == c.peak_end_h * 60 + c.peak_end_m

CurrentMinutes(t) == t.hour * 60 + t.minute

\* Variants of the calculation, each with one slip, that the properties must
\* tell from the code's.
\* - the peak usage is not floored at 0
ComputeValue_UnflooredUsage(total, t, c, s, e, nv) ==
    IF total = None THEN <<nv, "unavailable">>
    ELSE IF CurrentMinutes(t) < PeakStartMinutes(c)
    THEN <<total, "off_peak (before window)">>
    ELSE IF CurrentMinutes(t) < PeakEndMinutes(c)
    THEN <<IF s # None THEN s ELSE total, "peak window (frozen)">>
    ELSE IF s # None /\ e # None
    THEN <<Some(Max(0, Get(total) - (Get(e) - Get(s)))),
           "off_peak (after window)">>
    ELSE IF s # None
    THEN <<total, "off_peak (missing end snapshot)">>
    ELSE <<total, "off_peak (no snapshots)">>

\* - the time before the window is taken for the window
ComputeValue_NoBeforeBranch(total, t, c, s, e, nv) ==
    IF total = None THEN <<nv, "unavailable">>
    ELSE IF CurrentMinutes(t) < PeakEndMinutes(c)
    THEN <<IF s # None THEN s ELSE total, "peak window (frozen)">>
    ELSE IF s # None /\ e # None
    THEN <<Some(Max(0, Get(total) - Max(0, Get(e) - Get(s)))),
           "off_peak (after window)">>
    ELSE IF s # None
    THEN <<total, "off_peak (missing end snapshot)">>
    ELSE <<total, "off_peak (no snapshots)">>

\* - a missing end snapshot is replaced by the current reading
ComputeValue_GuessedEnd(total, t, c, s, e, nv) ==
    IF total = None THEN <<nv, "unavailable">>
    ELSE IF CurrentMinutes(t) < PeakStartMinutes(c)
    THEN <<total, "off_peak (before window)">>
    ELSE IF CurrentMinutes(t) < PeakEndMinutes(c)
    THEN <<IF s # None THEN s ELSE total, "peak window (frozen)">>
    ELSE IF s # None
    THEN <<Some(Max(0, Get(total)
               - Max(0, (IF e # None THEN Get(e) ELSE Get(total)) - Get(s)))),
           "off_peak (after window)">>
    ELSE <<total, "off_peak (no snapshots)">>

\* - an unreadable source publishes 0 instead of the last known value
ComputeValue_ZeroWhenUnavailable(total, t, c, s, e, nv) ==
    IF total = None THEN <<Some(0), "unavailable">>
    ELSE IF CurrentMinutes(t) < PeakStartMinutes(c)
    THEN <<total, "off_peak (before window)">>
    ELSE IF CurrentMinutes(t) < PeakEndMinutes(c)
    THEN <<IF s # None THEN s ELSE total, "peak window (frozen)">>
    ELSE IF s # None /\ e # None
    THEN <<Some(Max(0, Get(total) - Max(0, Get(e) - Get(s)))),
           "off_peak (after window)">>
    ELSE IF s # None
    THEN <<total, "off_peak (missing end snapshot)">>
    ELSE <<total, "off_peak (no snapshots)">>

\* - an end snapshot without a start snapshot is used, against a start of 0
ComputeValue_EndWithoutStart(total, t, c, s, e, nv) ==
    IF total = None THEN <<nv, "unavailable">>
    ELSE IF CurrentMinutes(t) < PeakStartMinutes(c)
    THEN <<total, "off_peak (before window)">>
    ELSE IF CurrentMinutes(t) < PeakEndMinutes(c)
    THEN <<IF s # None THEN s ELSE total, "peak window (frozen)">>
    ELSE IF e # None
    THEN <<Some(Max(0, Get(total)
               - Max(0, Get(e) - (IF s # None THEN Get(s) ELSE 0)))),
           "off_peak (after window)">>
    ELSE IF s # None
    THEN <<total, "off_peak (missing end snapshot)">>
    ELSE <<total, "off_peak (no snapshots)">>

\* EnergyOffPeakSensor._update_value, lines 263-287: <<value, status>>
ComputeValue(total, t, c, s, e, nv) ==
    IF total = None THEN <<nv, "unavailable">>
    ELSE IF CurrentMinutes(t) < PeakStartMinutes(c)
    THEN <<total, "off_peak (before window)">>
    ELSE IF CurrentMinutes(t) < PeakEndMinutes(c)
    THEN <<IF s # None THEN s ELSE total, "peak window (frozen)">>
    ELSE IF s # None /\ e # None
    THEN <<Some(Max(0, Get(total) - Max(0, Get(e) - Get(s)))),
           "off_peak (after window)">>
    ELSE IF s # None
    THEN <<total, "off_peak (missing end snapshot)">>
    ELSE <<total, "off_peak (no snapshots)">>

\* EnergyOffPeakSensor._update_value: the new _attr_native_value and attributes
UpdateValue(src, t, c, s, e, nv) ==
    LET r == ComputeValue(GetSourceValue(src), t, c, s, e, nv)
        value == r[1]
    IN  [native_value |-> IF value # None THEN Some(Round3(Get(value))) ELSE nv,
         attrs |->
            [peak_start |-> HHMM(c.peak_start_h, c.peak_start_m),
             peak_end |-> HHMM(c.peak_end_h, c.peak_end_m),
             snapshot_at_peak_start |-> s,
             snapshot_at_peak_end |-> e,
             peak_window_usage_kwh |->
                IF s # None /\ e # None
                THEN Some(Round3(Max(0, Get(e) - Get(s)))) ELSE None,
             status |-> r[2]]]

NoAttrs ==
    [peak_start |-> <<>>, peak_end |-> <<>>, snapshot_at_peak_start |-> None,
     snapshot_at_peak_end |-> None, peak_window_usage_kwh |-> None,
     status |-> ""]

\* EnergyOffPeakSensor._async_save_snapshots: the record handed to the store
SnapshotRecord(s, e, d) ==
    [snapshot_start |-> s, snapshot_end |-> e, snapshot_date |-> d]

\* Variant: the end snapshot is read from the start snapshot's key.
LoadSnapshots_EndFromStartKey(stored) ==
    IF stored # None
    THEN <<Get(stored).snapshot_start, Get(stored).snapshot_start,
           Get(stored).snapshot_date>>
    ELSE <<None, None, None>>

\* async_added_to_hass, lines 127-131: the three fields after the load
LoadSnapshots(stored) ==
    IF stored # None
    THEN <<Get(stored).snapshot_start, Get(stored).snapshot_end,
           Get(stored).snapshot_date>>
    ELSE <<None, None, None>>

(***************************************************************************)
(* The clock.  A day of the model has the times of HourGrid x MinuteGrid;  *)
(* the code compares hour * 60 + minute with the window bounds only, so a  *)
(* grid that holds every bound stands for the whole day.                   *)
(***************************************************************************)
LastOfDay(t) == <<t.hour, t.minute>> = <<MaxHour, 0>>

NextTime(t) ==
    IF LastOfDay(t) THEN [day |-> t.day + 1, hour |-> 0, minute |-> 0]
    ELSE IF \E m \in MinuteGrid : m > t.minute
    THEN [t EXCEPT !.minute =
              CHOOSE m \in MinuteGrid :
                  m > t.minute /\ \A k \in MinuteGrid : k > t.minute => m <= k]
    ELSE [t EXCEPT !.hour = t.hour + 1, !.minute = 0]

\* async_added_to_hass, lines 152-181: the time triggers registered, and the
\* ones whose hour:minute is t
DueAt(t, c) ==
    {x \in {"peak_start"} : t.hour = c.peak_start_h /\ t.minute = c.peak_start_m}
        \cup {x \in {"peak_end"} : t.hour = c.peak_end_h /\ t.minute = c.peak_end_m}
        \cup {x \in {"midnight"} : t.hour = 0 /\ t.minute = 0}

\* Time passes to the next time of the grid.  A running host delivers every
\* trigger of a minute before the next one begins, and the store write that a
\* handler dispatched (one executor job) is through, or lost with the host,
\* before then; a stopped host delivers none.
Tick ==
    /\ ~LastOfDay(now) \/ now.day < MaxDay
    /\ running => (due = {} /\ unsaved = None)
    /\ now' = NextTime(now)
    /\ due' = IF running THEN DueAt(now', conf) ELSE {}
    /\ captured' = (captured /\ now'.day = now.day)
    /\ UNCHANGED <<entries, flow_result, conf, running, source, snapshot_start,
                   snapshot_end, snapshot_date, native_value, attrs, unsaved,
                   store, last_sensor_data>>

\* EnergyOffPeakSensor._handle_peak_start
HandlePeakStart ==
    LET value == GetSourceValue(source)
        s == IF value # None THEN value ELSE snapshot_start
        e == IF value # None THEN None ELSE snapshot_end
        d == Some(now.day)
        u == UpdateValue(source, now, conf, s, e, native_value)
    IN  /\ running
        /\ "peak_start" \in due
        /\ due' = due \ {"peak_start"}
        /\ snapshot_date' = d
        /\ snapshot_start' = s
        /\ snapshot_end' = e
        /\ unsaved' = IF value # None
                      THEN Some(SnapshotRecord(s, e, d)) ELSE unsaved
        /\ native_value' = u.native_value
        /\ attrs' = u.attrs
        /\ captured' = (value # None)
        /\ UNCHANGED <<entries, flow_result, conf, running, now, source, store,
                       last_sensor_data>>

\* EnergyOffPeakSensor._handle_peak_end
HandlePeakEnd ==
    LET value == GetSourceValue(source)
        e == IF value # None THEN value ELSE snapshot_end
        u == UpdateValue(source, now, conf, snapshot_start, e, native_value)
    IN  /\ running
        /\ "peak_end" \in due
        /\ due' = due \ {"peak_end"}
        /\ snapshot_end' = e
        /\ unsaved' = IF value # None
                      THEN Some(SnapshotRecord(snapshot_start, e, snapshot_date))
                      ELSE unsaved
        /\ native_value' = u.native_value
        /\ attrs' = u.attrs
        /\ UNCHANGED <<entries, flow_result, conf, running, now, source,
                       snapshot_start, snapshot_date, store, last_sensor_data,
                       captured>>

\* Variant: the midnight reset leaves the end snapshot in place.
HandleMidnightReset_KeepsEnd ==
    LET d == Some(now.day)
        u == UpdateValue(source, now, conf, None, snapshot_end, native_value)
    IN  /\ running
        /\ due = {"midnight"}
        /\ due' = {}
        /\ snapshot_start' = None
        /\ snapshot_date' = d
        /\ unsaved' = Some(SnapshotRecord(None, snapshot_end, d))
        /\ native_value' = u.native_value
        /\ attrs' = u.attrs
        /\ UNCHANGED <<entries, flow_result, conf, running, now, source,
                       snapshot_end, store, last_sensor_data, captured>>

\* EnergyOffPeakSensor._handle_midnight_reset (second 2 of 00:00: after the
\* triggers of second 0 of that minute)
HandleMidnightReset ==
    LET d == Some(now.day)
        u == UpdateValue(source, now, conf, None, None, native_value)
    IN  /\ running
        /\ due = {"midnight"}
        /\ due' = {}
        /\ snapshot_start' = None
        /\ snapshot_end' = None
        /\ snapshot_date' = d
        /\ unsaved' = Some(SnapshotRecord(None, None, d))
        /\ native_value' = u.native_value
        /\ attrs' = u.attrs
        /\ UNCHANGED <<entries, flow_result, conf, running, now, source, store,
                       last_sensor_data, captured>>

\* Variant: a source change after the window fills in a missing end snapshot
\* and saves it.
HandleSourceStateChange_CapturesEnd(state) ==
    LET value == GetSourceValue(state)
        e == IF /\ value # None
                /\ snapshot_start # None
                /\ snapshot_end = None
                /\ CurrentMinutes(now) >= PeakEndMinutes(conf)
             THEN value ELSE snapshot_end
        u == UpdateValue(state, now, conf, snapshot_start, e, native_value)
    IN  /\ running
        /\ state # source
        /\ source' = state
        /\ snapshot_end' = e
        /\ unsaved' = IF e # snapshot_end
                      THEN Some(SnapshotRecord(snapshot_start, e, snapshot_date))
                      ELSE unsaved
        /\ native_value' = u.native_value
        /\ attrs' = u.attrs
        /\ UNCHANGED <<entries, flow_result, conf, running, now, due,
                       snapshot_start, snapshot_date, store, last_sensor_data,
                       captured>>

\* The source entity reports a new state: _handle_source_state_change
HandleSourceStateChange(state) ==
    LET u == UpdateValue(state, now, conf, snapshot_start, snapshot_end,
                         native_value)
    IN  /\ running
        /\ state # source
        /\ source' = state
        /\ native_value' = u.native_value
        /\ attrs' = u.attrs
        /\ UNCHANGED <<entries, flow_result, conf, running, now, due,
                       snapshot_start, snapshot_end, snapshot_date, unsaved,
                       store, last_sensor_data, captured>>

\* The source entity changes while the sensor is not loaded.
SourceChangeUnobserved(state) ==
    /\ ~running
    /\ state # source
    /\ source' = state
    /\ UNCHANGED <<entries, flow_result, conf, running, now, due,
                   snapshot_start, snapshot_end, snapshot_date, native_value,
                   attrs, unsaved, store, last_sensor_data, captured>>

\* _async_save_snapshots finishes: Store.async_save has written the record.
\* The store writes one record at a time and always the newest it was given,
\* so of the save tasks in flight only the newest one's record matters.
CompleteSave ==
    /\ unsaved # None
    /\ store' = unsaved
    /\ unsaved' = None
    /\ UNCHANGED <<entries, flow_result, conf, running, now, due, source,
                   snapshot_start, snapshot_end, snapshot_date, native_value,
                   attrs, last_sensor_data, captured>>

\* The host stops: the last published value is kept as restore data, save
\* tasks that have not finished are lost, and the next start constructs the
\* sensor anew.
Stop ==
    /\ running
    /\ running' = FALSE
    /\ due' = {}
    /\ unsaved' = None
    /\ last_sensor_data' = native_value
    /\ snapshot_start' = None
    /\ snapshot_end' = None
    /\ snapshot_date' = None
    /\ native_value' = None
    /\ attrs' = NoAttrs
    /\ captured' = FALSE
    /\ UNCHANGED <<entries, flow_result, conf, now, source, store>>

\* EnergyOffPeakSensor.async_added_to_hass
AsyncAddedToHass ==
    LET loaded == LoadSnapshots(store)
        u == UpdateValue(source, now, conf, loaded[1], loaded[2],
                         last_sensor_data)
    IN  /\ ~running
        /\ running' = TRUE
        /\ snapshot_start' = loaded[1]
        /\ snapshot_end' = loaded[2]
        /\ snapshot_date' = loaded[3]
        /\ native_value' = u.native_value
        /\ attrs' = u.attrs
        /\ last_sensor_data' = None  \* read once; the next stop replaces it
        /\ UNCHANGED <<entries, flow_result, conf, now, due, source, unsaved,
                       store, captured>>

\* After construction: EnergyOffPeakSensor.__init__, nothing stored yet.
Init ==
    /\ entries = <<>>
    /\ flow_result = NoResult
    /\ conf \in AcceptedConfs
    /\ running = FALSE
    /\ now = [day |-> 0, hour |-> 0, minute |-> 0]
    /\ due = {}
    /\ source \in SourceStates
    /\ snapshot_start = None
    /\ snapshot_end = None
    /\ snapshot_date = None
    /\ native_value = None
    /\ attrs = NoAttrs
    /\ unsaved = None
    /\ store = None
    /\ last_sensor_data = None
    /\ captured = FALSE

Next ==
    \/ Tick
    \/ HandlePeakStart
    \/ HandlePeakEnd
    \/ HandleMidnightReset
    \/ \E state \in SourceStates : HandleSourceStateChange(state)
    \/ \E state \in SourceStates : SourceChangeUnobserved(state)
    \/ CompleteSave
    \/ Stop
    \/ AsyncAddedToHass

Spec == Init /\ [][Next]_vars

(***************************************************************************)
(* Normal operation: a configuration whose window is not empty, a source   *)
(* that is readable and never decreases, a host that never stops.          *)
(***************************************************************************)
MeterReadings == {v \in Readings : v >= 0}

InitNormal ==
    /\ Init
    /\ PeakStartMinutes(conf) < PeakEndMinutes(conf)
    /\ source.kind = "numeric"
    /\ source.val \in MeterReadings

SourceIncrease(v) ==
    /\ v > source.val
    /\ HandleSourceStateChange([kind |-> "numeric", val |-> v])

NextNormal ==
    \/ Tick
    \/ HandlePeakStart
    \/ HandlePeakEnd
    \/ HandleMidnightReset
    \/ \E v \in MeterReadings : SourceIncrease(v)
    \/ CompleteSave
    \/ AsyncAddedToHass

NormalSpec == InitNormal /\ [][NextNormal]_vars

(***************************************************************************)
(* The configuration flow on its own.                                      *)
(***************************************************************************)
InitFlow ==
    /\ Init
    /\ conf = SensorConf([peak_start |-> HHMM(0, 0), peak_end |-> HHMM(0, 30)])
    /\ source = [kind |-> "absent", val |-> 0]

NextFlow ==
    \/ \E input \in {None} \cup {Some(u) : u \in FlowInputs} :
           AsyncStepUser(input)
    \/ \E i \in 1..MaxEntries, input \in {None} \cup {Some(u) : u \in FlowInputs} :
           AsyncStepInit(i, input)

FlowSpec == InitFlow /\ [][NextFlow]_vars

(***************************************************************************)
(* Persisting a snapshot state and loading it again, for every state.      *)
(***************************************************************************)
Optional(S) == {None} \cup {Some(x) : x \in S}

InitRoundTrip ==
    /\ entries = <<>>
    /\ flow_result = NoResult
    /\ conf \in AcceptedConfs
    /\ running = TRUE
    /\ now = [day |-> 0, hour |-> 0, minute |-> 0]
    /\ due = {}
    /\ source = [kind |-> "absent", val |-> 0]
    /\ snapshot_start \in Optional(Readings)
    /\ snapshot_end \in Optional(Readings)
    /\ snapshot_date \in Optional(Days)
    /\ native_value = None
    /\ attrs = NoAttrs
    /\ unsaved = None
    /\ store = None
    /\ last_sensor_data = None
    /\ captured = FALSE

\* _async_save_snapshots runs to its end, then the sensor is constructed anew
\* and async_added_to_hass loads what was stored.
SaveAndReload ==
    LET loaded == LoadSnapshots(store')
    IN  /\ store' =
               Some(SnapshotRecord(snapshot_start, snapshot_end, snapshot_date))
        /\ snapshot_start' = loaded[1]
        /\ snapshot_end' = loaded[2]
        /\ snapshot_date' = loaded[3]
        /\ UNCHANGED <<entries, flow_result, conf, running, now, due, source,
                       native_value, attrs, unsaved, last_sensor_data, captured>>

RoundTripSpec == InitRoundTrip /\ [][SaveAndReload]_vars

(***************************************************************************)
(* Vocabulary of the properties.                                           *)
(***************************************************************************)
\* a step that recomputes and publishes: one of the four triggers, or startup
Recompute ==
    \/ HandlePeakStart
    \/ HandlePeakEnd
    \/ HandleMidnightReset
    \/ \E state \in SourceStates : HandleSourceStateChange(state)
    \/ AsyncAddedToHass

Readable(state) == state.kind = "numeric"

\* absent, 'unknown', 'unavailable', or a text that is no number
Unreadable(state) == state.kind \in {"absent", "unknown", "unavailable", "text"}

BeforeWindow(t) ==
    t.hour * 60 + t.minute < conf.peak_start_h * 60 + conf.peak_start_m

AfterWindow(t) ==
    t.hour * 60 + t.minute >= conf.peak_end_h * 60 + conf.peak_end_m

InWindow(t) == ~BeforeWindow(t) /\ ~AfterWindow(t)

(***************************************************************************)
(* Properties.                                                             *)
(***************************************************************************)
\* C1: every recompute made at a time of day >= peak_end, with the source
\* readable (raw total t) and both snapshots set (s and e), publishes
\* max(0, t - max(0, e - s)) rounded to 3 decimals, with the status
\* 'off_peak (after window)'; and with s = 120, e = 140 and t = 150 the
\* calculation of a 11:00-14:00 window gives 130 at 15:00.
C1_AfterWindowValue ==
    /\ [][(/\ AfterWindow(now')
           /\ Readable(source')
           /\ snapshot_start' # None
           /\ snapshot_end' # None
           /\ Recompute)
          => /\ native_value' =
                    Some(Round3(Max(0, source'.val
                        - Max(0, Get(snapshot_end') - Get(snapshot_start')))))
             /\ attrs'.status = "off_peak (after window)"]_vars
    /\ UpdateValue([kind |-> "numeric", val |-> Kwh(150)],
                   [day |-> 0, hour |-> 15, minute |-> 0],
                   [peak_start_h |-> 11, peak_start_m |-> 0,
                    peak_end_h |-> 14, peak_end_m |-> 0],
                   Some(Kwh(120)), Some(Kwh(140)), Some(Kwh(120))).native_value
           = Some(Kwh(130))

\* C1 witness: after the window, start snapshot 0.0014, end snapshot 0.004 and
\* a raw total of 0.004: 0.004 - 0.0026 = 0.0014 is published as 0.001.
C1_Witness ==
    /\ running
    /\ AfterWindow(now)
    /\ attrs.status = "off_peak (after window)"
    /\ snapshot_start = Some(14)
    /\ snapshot_end = Some(40)
    /\ source = [kind |-> "numeric", val |-> 40]
    /\ native_value = Some(10)

\* C2: in normal operation the published value never decreases from one
\* publication to the next.
C2_NeverDecreases ==
    [][(native_value # None /\ native_value' # None)
          => Get(native_value') >= Get(native_value)]_vars

\* C3: in the peak window, once the peak-start trigger has fired (and read a
\* value), every published value is the one published by that trigger, which
\* is the source value of that instant, rounded.
C3_FrozenInWindow ==
    /\ [][(HandlePeakStart /\ Readable(source) /\ InWindow(now))
          => native_value' = Some(Round3(source.val))]_vars
    /\ [][(captured /\ captured' /\ InWindow(now) /\ InWindow(now'))
          => native_value' = native_value]_vars

\* C4: every recompute made before peak_start with a readable source value
\* >= 0 publishes that value, rounded to 3 decimals, with the status
\* 'off_peak (before window)', whatever the snapshots and their date are.
C4_BeforeWindowRaw ==
    [][(/\ BeforeWindow(now')
        /\ Readable(source')
        /\ source'.val >= 0
        /\ Recompute)
       => /\ native_value' = Some(Round3(source'.val))
          /\ attrs'.status = "off_peak (before window)"]_vars

\* C4 witness: a recompute before the window of day 1 while both snapshots of
\* day 0 are still there (loaded at a start after a missed midnight).
C4_Witness ==
    /\ running
    /\ BeforeWindow(now)
    /\ now.day = 1
    /\ snapshot_date = Some(0)
    /\ snapshot_start = Some(14)
    /\ snapshot_end = Some(40)
    /\ source = [kind |-> "numeric", val |-> 14]
    /\ native_value = Some(10)
    /\ attrs.status = "off_peak (before window)"

\* C5: the published value is never negative.
C5_NeverNegative == native_value # None => Get(native_value) >= 0

\* C6: the midnight trigger leaves both snapshots unset and snapshot_date on
\* the new day; from then until the day's peak_start the snapshots stay unset
\* and every recompute with a readable source publishes the raw source value
\* (as every published value, rounded to 3 decimals).
C6_MidnightReset ==
    /\ [][HandleMidnightReset
          => /\ snapshot_start' = None
             /\ snapshot_end' = None
             /\ snapshot_date' = Some(now'.day)]_vars
    /\ [][(/\ BeforeWindow(now')
           /\ snapshot_date' = Some(now'.day)
           /\ Readable(source')
           /\ Recompute)
          => /\ snapshot_start' = None
             /\ snapshot_end' = None
             /\ native_value' = Some(Round3(source'.val))]_vars

\* C6 witness: day 1, the midnight trigger has run and its record is stored,
\* the window has not begun, and the raw reading 0.004 is published.
C6_Witness ==
    /\ running
    /\ now.day = 1
    /\ due = {}
    /\ BeforeWindow(now)
    /\ snapshot_start = None
    /\ snapshot_end = None
    /\ snapshot_date = Some(1)
    /\ store = Some(SnapshotRecord(None, None, Some(1)))
    /\ source = [kind |-> "numeric", val |-> 40]
    /\ native_value = Some(40)
    /\ attrs.status = "off_peak (before window)"

\* C7: with a start snapshot and no end snapshot (as after a restart that
\* loaded a record holding only snapshot_start, when no end snapshot was
\* captured since), every recompute at a time of day >= peak_end with a
\* readable source publishes the raw source value (rounded to 3 decimals, as
\* every published value) with the status 'off_peak (missing end snapshot)'.
C7_MissingEndSnapshot ==
    [][(/\ AfterWindow(now')
        /\ Readable(source')
        /\ snapshot_start' # None
        /\ snapshot_end' = None
        /\ Recompute)
       => /\ native_value' = Some(Round3(source'.val))
          /\ attrs'.status = "off_peak (missing end snapshot)"]_vars

\* C7 witness: running on day 1 with the snapshot date of day 0, so that the
\* fields are those loaded at a start of day 1; only the start snapshot is
\* there, the window of day 1 is over, and the raw reading is published.
C7_Witness ==
    /\ running
    /\ now.day = 1
    /\ AfterWindow(now)
    /\ snapshot_date = Some(0)
    /\ snapshot_start = Some(14)
    /\ snapshot_end = None
    /\ store = Some(SnapshotRecord(Some(14), None, Some(0)))
    /\ source = [kind |-> "numeric", val |-> 40]
    /\ native_value = Some(40)
    /\ attrs.status = "off_peak (missing end snapshot)"

\* C8: a recompute that finds the source unreadable leaves the published value
\* as it was (at startup: as restored), sets the status 'unavailable', and
\* captures no snapshot: a snapshot changes only by being cleared.
C8_UnreadableKeepsValue ==
    /\ [][(/\ Unreadable(source')
           /\ \/ HandlePeakStart
              \/ HandlePeakEnd
              \/ HandleMidnightReset
              \/ \E state \in SourceStates : HandleSourceStateChange(state))
          => /\ native_value' = native_value
             /\ attrs'.status = "unavailable"
             /\ snapshot_start' \in {snapshot_start, None}
             /\ snapshot_end' \in {snapshot_end, None}]_vars
    /\ [][(Unreadable(source') /\ AsyncAddedToHass)
          => /\ native_value' = last_sensor_data
             /\ attrs'.status = "unavailable"
             /\ store = None => (snapshot_start' = None /\ snapshot_end' = None)
             /\ store # None =>
                    /\ snapshot_start' = Get(store).snapshot_start
                    /\ snapshot_end' = Get(store).snapshot_end]_vars

\* C8 witness: the peak-end minute has had its trigger, the source is
\* 'unavailable', no end snapshot was captured and the frozen value is still
\* the published one.
C8_Witness ==
    /\ running
    /\ PeakStartMinutes(conf) < PeakEndMinutes(conf)
    /\ CurrentMinutes(now) = PeakEndMinutes(conf)
    /\ due = {}
    /\ source.kind = "unavailable"
    /\ snapshot_start = Some(14)
    /\ snapshot_end = None
    /\ snapshot_date = Some(now.day)
    /\ native_value = Some(10)
    /\ attrs.status = "unavailable"

\* C9: saving a snapshot state and loading it at startup gives back the same
\* snapshot_start, snapshot_end and snapshot_date, each set or absent.
C9_RoundTrip ==
    [][SaveAndReload
          => /\ snapshot_start' = snapshot_start
             /\ snapshot_end' = snapshot_end
             /\ snapshot_date' = snapshot_date]_vars

\* C9 witness: a state with a start snapshot, no end snapshot and a date has
\* been saved and loaded.
C9_Witness ==
    /\ store = Some(SnapshotRecord(Some(14), None, Some(1)))
    /\ snapshot_start = Some(14)
    /\ snapshot_end = None
    /\ snapshot_date = Some(1)

\* C10: every configuration accepted by the setup step or the options step
\* has peak_start < peak_end, as the times of day the sensor is given.
C10_AcceptedStartBeforeEnd ==
    \A i \in 1..Len(entries) :
        LET c == SensorConf(EntryConfig(entries[i]))
        IN  PeakStartMinutes(c) < PeakEndMinutes(c)

\* C11: after any sequence of configuration creations and option edits, no two
\* configuration entries are set up with the same identity
\* {source_entity}_{peak_start}_{peak_end}.
C11_UniqueIdentity ==
    \A i, j \in 1..Len(entries) :
        i # j => UniqueId(EntryConfig(entries[i])) # UniqueId(EntryConfig(entries[j]))

\* C12: a recompute subtracts a peak usage (status 'off_peak (after window)',
\* end snapshot above start snapshot) only when the snapshots are those of the
\* current calendar day, also after a restart that loaded a record of an
\* earlier day or on a day whose midnight trigger was not delivered.
C12_SubtractsOnlyTodaysSnapshots ==
    [][(/\ attrs'.status = "off_peak (after window)"
        /\ Get(snapshot_end') > Get(snapshot_start')
        /\ Recompute)
       => snapshot_date' = Some(now'.day)]_vars

\* C13: every run of the peak-start trigger leaves snapshot_date on today and
\* snapshot_end unset, whether the source is readable at that instant or not.
C13_PeakStartClearsEnd ==
    [][HandlePeakStart
          => /\ snapshot_date' = Some(now'.day)
             /\ snapshot_end' = None]_vars

\* C14: a peak-end trigger that finds the source unreadable leaves
\* snapshot_end unset; and the recomputes made after the window with
\* snapshot_start set, snapshot_end unset and a readable source publish the
\* raw source value with the status 'off_peak (missing end snapshot)'.
C14_UnreadableAtPeakEnd ==
    /\ [][(Unreadable(source) /\ HandlePeakEnd) => snapshot_end' = None]_vars
    /\ [][(/\ AfterWindow(now')
           /\ Readable(source')
           /\ snapshot_start' # None
           /\ snapshot_end' = None
           /\ \/ HandlePeakEnd
              \/ \E state \in SourceStates : HandleSourceStateChange(state))
          => /\ attrs'.status = "off_peak (missing end snapshot)"
             /\ native_value' = Some(Round3(source'.val))]_vars

\* C15 (as claimed): in every reachable state, if snapshot_end is set then
\* snapshot_start is set.
C15_EndImpliesStart == snapshot_end # None => snapshot_start # None

\* C15 (amended): an end snapshot without a start snapshot is never used: a
\* recompute that finds snapshot_end set and snapshot_start unset, with a
\* readable source, publishes the raw source value (rounded to 3 decimals),
\* never with the status 'off_peak (after window)', and reports no peak usage.
C15_EndUnusedWithoutStart ==
    [][(/\ snapshot_start' = None
        /\ snapshot_end' # None
        /\ Readable(source')
        /\ Recompute)
       => /\ native_value' = Some(Round3(source'.val))
          /\ attrs'.status # "off_peak (after window)"
          /\ attrs'.peak_window_usage_kwh = None]_vars

\* C15 witness: the peak-start trigger found the source unreadable, the
\* peak-end trigger captured 0.0014; after the window the raw reading 0.004 is
\* published with the status 'off_peak (no snapshots)'.
C15_Witness ==
    /\ running
    /\ PeakStartMinutes(conf) < PeakEndMinutes(conf)
    /\ AfterWindow(now)
    /\ snapshot_date = Some(now.day)
    /\ snapshot_start = None
    /\ snapshot_end = Some(14)
    /\ source = [kind |-> "numeric", val |-> 40]
    /\ native_value = Some(40)
    /\ attrs.status = "off_peak (no snapshots)"

\* C16: the source-change trigger leaves snapshot_start, snapshot_end and
\* snapshot_date as they were and dispatches no write to the store; the
\* attributes it publishes report the unchanged snapshots.
C16_SourceChangeFrame ==
    [][(\E state \in SourceStates : HandleSourceStateChange(state))
          => /\ snapshot_start' = snapshot_start
             /\ snapshot_end' = snapshot_end
             /\ snapshot_date' = snapshot_date
             /\ unsaved' = unsaved
             /\ store' = store
             /\ attrs'.snapshot_at_peak_start = snapshot_start
             /\ attrs'.snapshot_at_peak_end = snapshot_end]_vars

\* C16 witness: inside the window the source has moved from the captured
\* 0.0014 to 0.004; the snapshot fields and the stored record are those of the
\* peak-start trigger and no write is pending.
C16_Witness ==
    /\ running
    /\ InWindow(now)
    /\ due = {}
    /\ source = [kind |-> "numeric", val |-> 40]
    /\ snapshot_start = Some(14)
    /\ snapshot_end = None
    /\ snapshot_date = Some(now.day)
    /\ unsaved = None
    /\ store = Some(SnapshotRecord(Some(14), None, Some(now.day)))
    /\ native_value = Some(10)
    /\ attrs.status = "peak window (frozen)"

\* C17: every run of the peak-start, peak-end or midnight trigger that changes
\* snapshot_start, snapshot_end or snapshot_date dispatches a write to the
\* store that carries the new snapshot state.
C17_SavedAfterEveryMutation ==
    [][(/\ <<snapshot_start', snapshot_end', snapshot_date'>>
               # <<snapshot_start, snapshot_end, snapshot_date>>
        /\ \/ HandlePeakStart
           \/ HandlePeakEnd
           \/ HandleMidnightReset)
       => unsaved' =
              Some(SnapshotRecord(snapshot_start', snapshot_end', snapshot_date'))]_vars

\* C18: whenever every write dispatched by a trigger has completed (none is
\* pending), the record in the store is the tracker's current snapshot_start,
\* snapshot_end and snapshot_date, so that a restart at that point restores
\* the latest state.
C18_StoreHoldsLatestState ==
    (running /\ unsaved = None)
        => LoadSnapshots(store) = <<snapshot_start, snapshot_end, snapshot_date>>

\* C19: on a day whose peak-start trigger captured snapshot_start, with the
\* source readable throughout, no recompute made before that day's peak-end
\* trigger has been handled publishes the status 'off_peak (missing end
\* snapshot)': not a source change handled in the peak_end minute ahead of
\* the trigger either.
C19_NoMissingEndBeforePeakEnd ==
    [][(/\ captured'
        /\ \/ BeforeWindow(now')
           \/ InWindow(now')
           \/ "peak_end" \in due'
        /\ Recompute)
       => attrs'.status # "off_peak (missing end snapshot)"]_vars

\* C20: when the peak-end trigger runs with snapshot_start = s set and
\* captures a readable source value e >= s, the value it publishes is s (as
\* every published value, rounded to 3 decimals): the value that was frozen
\* during the window, so that closing the window causes no jump.
C20_ContinuityAtWindowClose ==
    [][(/\ snapshot_start # None
        /\ Readable(source)
        /\ source.val >= Get(snapshot_start)
        /\ HandlePeakEnd)
       => native_value' = Some(Round3(Get(snapshot_start)))]_vars

====
